---- MODULE Spec2Model ----
(***************************************************************************)
(* scpweave: merge two SCP flux images into one, choosing per track slot   *)
(* which of the two inputs supplies the Track and its flux payloads.       *)
(* Files are byte sequences; byte position p of a file f is f[p + 1].      *)
(***************************************************************************)
EXTENDS Integers, Sequences, FiniteSets, TLC

\* ------------------------------------------------------------------------
\* Program constants
\* ------------------------------------------------------------------------
NumSlots == 168
U8 == 256
U16 == U8 * U8
ChecksumFrom == 16
ChecksumAt == 12
NumInputs == 2
\* 3-byte magic, 9 one-byte fields, the checksum, 168 offsets
HeaderSize == ChecksumFrom + 4 * NumSlots

\* ------------------------------------------------------------------------
\* Bounds of the explored input space
\* ------------------------------------------------------------------------
MaxRevs == 2
MaxBitcells == 2
MaxSpan == 2

\* ------------------------------------------------------------------------
\* Byte helpers
\* ------------------------------------------------------------------------
None == [none |-> TRUE]

\* A u32 is the pair <<high 16 bits, low 16 bits>>, so that the full 32-bit
\* range and its wraparound are kept.
\* n as u32
u32(n) == <<(n \div U16) % U16, n % U16>>

\* x as u64 (or usize)
val(x) == x[1] * U16 + x[2]

Zero == u32(0)

\* byte k (0 = least significant) of the little-endian encoding of the u32 x
LEByte(x, k) ==
    CASE k = 0 -> x[2] % U8 [] k = 1 -> x[2] \div U8
      [] k = 2 -> x[1] % U8 [] OTHER -> x[1] \div U8

LE32(x) == <<LEByte(x, 0), LEByte(x, 1), LEByte(x, 2), LEByte(x, 3)>>

\* the u32 read little-endian at byte position p of f
RdLE32(f, p) == <<f[p + 3] + U8 * f[p + 4], f[p + 1] + U8 * f[p + 2]>>

\* bytes [p, p + n) of f
Slice(f, p, n) == SubSeq(f, p + 1, p + n)

IsU32(x) == x[1] \in 0..(U16 - 1) /\ x[2] \in 0..(U16 - 1)

\* Faulty variant: the low half wraps without carrying into the high half
wrapping_add_nocarry(a, b) == <<(a[1] + b[1]) % U16, (a[2] + b[2]) % U16>>

\* u32::wrapping_add
wrapping_add(a, b) ==
    LET lo == a[2] + b[2]
    IN  <<(a[1] + b[1] + lo \div U16) % U16, lo % U16>>

\* fn checksum(data): the loop `for &byte in data { sum = sum.wrapping_add(byte) }`
\* run over data[lo..hi] from the running value acc.  The iterations lo..hi
\* are the iterations lo..mid followed by the iterations mid+1..hi, acc
\* being threaded through in loop order (this keeps the evaluation shallow).
RECURSIVE checksum_loop(_, _, _, _)
checksum_loop(data, lo, hi, acc) ==
    IF lo > hi THEN acc
    ELSE IF hi - lo < 8
    THEN checksum_loop(data, lo + 1, hi, wrapping_add(acc, u32(data[lo])))
    ELSE LET mid == (lo + hi) \div 2
             a   == checksum_loop(data, lo, mid, acc)
         IN  IF IsU32(a) THEN checksum_loop(data, mid + 1, hi, a) ELSE a

checksum(data) == checksum_loop(data, 1, Len(data), Zero)

\* ------------------------------------------------------------------------
\* Binary codec (binrw, little endian, magic tags)
\* ------------------------------------------------------------------------
MagicSCP == <<83, 67, 80>>
MagicTRK == <<84, 82, 75>>

\* ScpHeader::write
EncodeHeader(h) ==
    LET tdh == h.track_data_headers
    IN  MagicSCP \o
        <<h.version, h.disk_type, h.rev_count, h.start_track, h.end_track,
          h.flags, h.bitcell_time, h.heads, h.resolution>> \o
        LE32(h.checksum) \o
        [k \in 1..(4 * NumSlots) |-> LEByte(tdh[((k - 1) \div 4) + 1], (k - 1) % 4)]

\* ScpHeader::read at the start of f: None on a short file or a wrong magic
DecodeHeader(f) ==
    IF Len(f) < HeaderSize \/ Slice(f, 0, 3) # MagicSCP THEN None
    ELSE [version |-> f[4], disk_type |-> f[5], rev_count |-> f[6],
          start_track |-> f[7], end_track |-> f[8], flags |-> f[9],
          bitcell_time |-> f[10], heads |-> f[11], resolution |-> f[12],
          checksum |-> RdLE32(f, ChecksumAt),
          track_data_headers |->
              [s \in 1..NumSlots |-> RdLE32(f, ChecksumFrom + 4 * (s - 1))]]

\* size of an encoded ScpTrack with n revolutions
TrackSize(n) == 4 + 12 * n

\* ScpRev field k (0 duration, 1 num_bitcells, 2 offset)
RevField(r, k) ==
    CASE k = 0 -> r.duration [] k = 1 -> r.num_bitcells [] OTHER -> r.offset

\* ScpTrack::write: every element of revs is written
EncodeTrack(t) ==
    LET revs == t.revs
    IN  MagicTRK \o <<t.track_number>> \o
        [k \in 1..(12 * Len(revs)) |->
            LEByte(RevField(revs[((k - 1) \div 12) + 1], ((k - 1) % 12) \div 4),
                   (k - 1) % 4)]

\* ScpTrack::read_args at byte position off of f, with count = rev_count
DecodeTrack(f, off, rev_count) ==
    IF Len(f) < off + TrackSize(rev_count) \/ Slice(f, off, 3) # MagicTRK
    THEN None
    ELSE [track_number |-> f[off + 4],
          revs |-> [r \in 1..rev_count |->
                       [duration     |-> RdLE32(f, off + 4 + 12 * (r - 1)),
                        num_bitcells |-> RdLE32(f, off + 8 + 12 * (r - 1)),
                        offset       |-> RdLE32(f, off + 12 + 12 * (r - 1))]]]

\* ------------------------------------------------------------------------
\* Input images.  An image is built from a shape [rc, v]: rc revolutions per
\* Track, v the layout variant.
\* ------------------------------------------------------------------------
Variants == {"canon", "wide", "loose", "badck", "cut", "badtrk", "bt3"}

Shapes == [rc : 1..MaxRevs, v : Variants]

\* the variants that store payloads in reverse order, with a gap after the
\* Header and a trailing byte; "spread" holds the Tracks and payload bytes
\* of "canon" laid out this way, "solo" only those of slot 10
LooseVariants == {"loose", "spread"}

\* the slots that hold a Track, in file order
SlotsOf(sh) ==
    CASE sh.v = "wide" -> <<10, 167>> [] sh.v = "solo" -> <<10>> [] OTHER -> <<0, 10>>

VariantId(v) ==
    CASE v = "canon" -> 1 [] v = "wide" -> 2 [] v = "loose" -> 3
      [] v = "badck" -> 1 [] v = "cut" -> 5 [] v = "badtrk" -> 6
      [] v = "spread" -> 1 [] v = "solo" -> 1 [] OTHER -> 7

\* num_bitcells of revolution j (1-based) of slot s: 0..MaxBitcells, zero at
\* a first, a middle or a last revolution depending on variant and slot
NbOf(sh, s, j) == (VariantId(sh.v) + s + j - 1) % (MaxBitcells + 1)

\* flux byte k (1-based) of revolution j of slot s
FluxByte(sh, s, j, k) == (VariantId(sh.v) * 53 + sh.rc * 11 + s * 7 + j * 29 + k * 3) % 256

Payload(sh, s, j) == [k \in 1..(2 * NbOf(sh, s, j)) |-> FluxByte(sh, s, j, k)]

RECURSIVE PayloadBytesBetween(_, _, _, _)
\* total payload length of revolutions lo..hi of slot s
PayloadBytesBetween(sh, s, lo, hi) ==
    IF lo > hi THEN 0
    ELSE 2 * NbOf(sh, s, lo) + PayloadBytesBetween(sh, s, lo + 1, hi)

\* where revolution j's payload is stored, relative to its Track: in
\* revolution order, or (variant "loose") in reverse revolution order
SrcRevOffset(sh, s, j) ==
    IF sh.v \in LooseVariants
    THEN TrackSize(sh.rc) + PayloadBytesBetween(sh, s, j + 1, sh.rc)
    ELSE TrackSize(sh.rc) + PayloadBytesBetween(sh, s, 1, j - 1)

SrcTrack(sh, s) ==
    [track_number |-> (s + 3 * (VariantId(sh.v) - 1)) % U8,
     revs |-> [j \in 1..sh.rc |->
                 [duration     |-> u32(100000 * VariantId(sh.v) + 10 * s + j),
                  num_bitcells |-> u32(NbOf(sh, s, j)),
                  offset       |-> u32(SrcRevOffset(sh, s, j))]]]

RECURSIVE PayloadsFwd(_, _, _)
PayloadsFwd(sh, s, j) ==
    IF j > sh.rc THEN <<>> ELSE Payload(sh, s, j) \o PayloadsFwd(sh, s, j + 1)

RECURSIVE PayloadsRev(_, _, _)
PayloadsRev(sh, s, j) ==
    IF j < 1 THEN <<>> ELSE Payload(sh, s, j) \o PayloadsRev(sh, s, j - 1)

\* a Track structure followed by its payloads
TrackBlob(sh, s) ==
    EncodeTrack(SrcTrack(sh, s)) \o
    (IF sh.v \in LooseVariants THEN PayloadsRev(sh, s, sh.rc) ELSE PayloadsFwd(sh, s, 1))

\* bytes between the Header and the first Track, and after the last payload
GapOf(sh) == IF sh.v \in LooseVariants THEN <<170, 187>> ELSE <<>>
TrailOf(sh) == IF sh.v \in LooseVariants THEN <<204>> ELSE <<>>

\* absolute position of the n-th present Track
RECURSIVE SrcTrackPos(_, _)
SrcTrackPos(sh, n) ==
    IF n = 1 THEN HeaderSize + Len(GapOf(sh))
    ELSE SrcTrackPos(sh, n - 1) + Len(TrackBlob(sh, SlotsOf(sh)[n - 1]))

SrcHeader(sh, ck) ==
    LET slots == SlotsOf(sh)
        pos   == [n \in 1..Len(slots) |-> SrcTrackPos(sh, n)]
    IN
    [version |-> 25, disk_type |-> 4, rev_count |-> sh.rc, start_track |-> 0,
     end_track |-> NumSlots - 1, flags |-> 1,
     bitcell_time |-> IF sh.v = "bt3" THEN 3 ELSE 0,
     heads |-> 0, resolution |-> 0, checksum |-> ck,
     track_data_headers |->
        [s \in 1..NumSlots |->
            IF \E n \in 1..Len(slots) : slots[n] = s - 1
            THEN u32(pos[CHOOSE n \in 1..Len(slots) : slots[n] = s - 1])
            ELSE Zero]]

RECURSIVE SrcBlobs(_, _)
SrcBlobs(sh, n) ==
    IF n > Len(SlotsOf(sh)) THEN <<>>
    ELSE TrackBlob(sh, SlotsOf(sh)[n]) \o SrcBlobs(sh, n + 1)

SrcBody(sh) == GapOf(sh) \o SrcBlobs(sh, 1) \o TrailOf(sh)

\* the image file of a shape: stored checksum is the byte-sum from offset 16,
\* except for "badck"; "cut" loses its last byte; "badtrk" has the magic of
\* its last Track spoiled
BuildImage(sh) ==
    LET body == SrcBody(sh)
        h0   == EncodeHeader(SrcHeader(sh, Zero))
        ck   == wrapping_add(checksum(Slice(h0, ChecksumFrom, HeaderSize - ChecksumFrom)),
                             checksum(body))
        ckst == IF sh.v = "badck" THEN wrapping_add(ck, u32(1)) ELSE ck
        f    == SubSeq(h0, 1, ChecksumAt) \o LE32(ckst)
                    \o SubSeq(h0, ChecksumFrom + 1, HeaderSize) \o body
    IN  CASE sh.v = "cut"    -> SubSeq(f, 1, Len(f) - 1)
          [] sh.v = "badtrk" -> [f EXCEPT ![SrcTrackPos(sh, Len(SlotsOf(sh))) + 1] = 88]
          [] OTHER           -> f

\* the image file of every shape
Images == [sh \in Shapes |-> BuildImage(sh)]

\* Command lines: the number of input paths and the -t overrides, each
\* override already split at ":" into three numbers <<a, b, c>>
ArgSets ==
    { [n_in |-> 2, tracks |-> <<>>],
      [n_in |-> 2, tracks |-> << <<0, 5, 1>> >>],
      [n_in |-> 2, tracks |-> << <<1, 83, 1>> >>],
      [n_in |-> 2, tracks |-> << <<0, 0, 2>> >>],
      [n_in |-> 2, tracks |-> << <<0, 84, 1>> >>],
      [n_in |-> 2, tracks |-> << <<0, 5, 256>> >>],
      [n_in |-> 2, tracks |-> << <<5, 0, 1>>, <<1, 1, 1>> >>],
      [n_in |-> 1, tracks |-> <<>>],
      [n_in |-> 3, tracks |-> << <<0, 5, 1>> >>] }

\* ------------------------------------------------------------------------
\* State of one run of main
\* ------------------------------------------------------------------------
VARIABLES
    args,             \* the command line: [n_in, tracks]
    in_bytes,         \* the bytes of the two input files
    pc,               \* position in main, or how the run ended
    p,                \* number of -t parameters applied so far
    track_params,     \* Vec<u8> of 168 source indices
    scp_in_files,     \* the Scp values loaded so far: [header, tracks]
    scp_out_header,   \* the output ScpHeader in memory
    out_created,      \* File::create has run
    out_file,         \* bytes of the output file
    out_pos,          \* stream position of out_file
    sum,              \* running checksum
    i,                \* slot index of the merge loop
    j,                \* revolutions of slot i copied so far
    new_track,        \* the Track being written for slot i
    track_header_pos, \* where slot i's Track starts in out_file
    out_tracks,       \* per slot, the Track as last rewritten into out_file
    out_writes,       \* the writes to out_file so far: [op, slot, rev, pos, len]
    run,              \* 1 in the first run of main, 2 in a second run
    first,            \* what the first run was given and how it ended
    ck_a, ck_b,       \* two byte spans handed to checksum
    ck_start,         \* the running total before they are folded in
    ck_sum,           \* the running total
    ck_folded         \* which of the spans have been folded in

ckvars == <<ck_a, ck_b, ck_start, ck_sum, ck_folded>>

runvars == <<run, first>>

mainvars == <<args, in_bytes, pc, p, track_params, scp_in_files, scp_out_header,
              out_created, out_file, out_pos, sum, i, j, new_track,
              track_header_pos, out_tracks, out_writes>>

vars == <<mainvars, ckvars, runvars>>

CkIdle ==
    /\ ck_a = <<>>
    /\ ck_b = <<>>
    /\ ck_start = Zero
    /\ ck_sum = Zero
    /\ ck_folded = {}

\* the state at the entry of main, the two input files drawn from the
\* images of the shapes S0 and S1
InitWith(S0, S1) ==
    /\ \E s0 \in S0 :
           LET f0 == Images[s0]
           IN  \E s1 \in S1 : in_bytes = <<f0, Images[s1]>>
    /\ args \in ArgSets
    /\ pc = "start"
    /\ p = 0
    /\ track_params = <<>>
    /\ scp_in_files = <<>>
    /\ scp_out_header = None
    /\ out_created = FALSE
    /\ out_file = <<>>
    /\ out_pos = 0
    /\ sum = Zero
    /\ i = 0
    /\ j = 0
    /\ new_track = None
    /\ track_header_pos = 0
    /\ out_tracks = [s \in 1..NumSlots |-> None]
    /\ out_writes = <<>>
    /\ run = 1
    /\ first = None
    /\ CkIdle

Init == InitWith(Shapes, Shapes)

\* write data at position pos of file f (the file grows as needed)
WriteAt(f, pos, data) ==
    LET head == IF pos <= Len(f) THEN SubSeq(f, 1, pos)
                ELSE f \o [k \in 1..(pos - Len(f)) |-> 0]
        tail == SubSeq(f, pos + Len(data) + 1, Len(f))
    IN  head \o data \o tail

\* lines 74-78: the input count is checked, then the table is all zero
CheckArgs ==
    /\ pc = "start"
    /\ IF args.n_in # NumInputs
       THEN pc' = "exit" /\ UNCHANGED track_params
       ELSE pc' = "params" /\ track_params' = [s \in 1..NumSlots |-> 0]
    /\ UNCHANGED <<args, in_bytes, p, scp_in_files, scp_out_header, out_created,
                   out_file, out_pos, sum, i, j, new_track, track_header_pos,
                   out_tracks, out_writes, ckvars, runvars>>

\* the index a parameter <<a, b, c>> addresses (line 81)
ParamIndex(t) == t[1] + t[2] * 2

\* lines 79-82, one parameter: the value is parsed as u8 first (Err when it
\* does not fit), then the index expression is evaluated and bounds-checked
ApplyParam ==
    /\ pc = "params"
    /\ p < Len(args.tracks)
    /\ LET t == args.tracks[p + 1] IN
          IF t[3] >= U8
          THEN pc' = "err" /\ UNCHANGED <<track_params, p>>
          ELSE IF ParamIndex(t) >= NumSlots
          THEN pc' = "panic" /\ UNCHANGED <<track_params, p>>
          ELSE /\ track_params' = [track_params EXCEPT ![ParamIndex(t) + 1] = t[3]]
               /\ p' = p + 1
               /\ pc' = pc
    /\ UNCHANGED <<args, in_bytes, scp_in_files, scp_out_header, out_created,
                   out_file, out_pos, sum, i, j, new_track, track_header_pos,
                   out_tracks, out_writes, ckvars, runvars>>

ParamsDone ==
    /\ pc = "params"
    /\ p = Len(args.tracks)
    /\ pc' = "load"
    /\ UNCHANGED <<args, in_bytes, p, track_params, scp_in_files, scp_out_header,
                   out_created, out_file, out_pos, sum, i, j, new_track,
                   track_header_pos, out_tracks, out_writes, ckvars, runvars>>

\* lines 90-98: the Tracks of a file whose Header is h
LoadTracks(f, h) ==
    [s \in 1..NumSlots |->
        IF h.track_data_headers[s] # Zero
        THEN DecodeTrack(f, val(h.track_data_headers[s]), h.rev_count)
        ELSE None]

\* has the Option a value
IsSome(x) == x # None

\* Faulty variant: bitcell_time is not looked at
LoadFile_anytime(f) ==
    LET h == DecodeHeader(f) IN
    IF h = None THEN [res |-> "panic"]
    ELSE LET ts == LoadTracks(f, h) IN
         IF \E s \in 1..NumSlots : h.track_data_headers[s] # Zero /\ ts[s] = None
         THEN [res |-> "panic"]
         ELSE [res |-> "ok", scp |-> [header |-> h, tracks |-> ts]]

\* lines 84-99, the closure for one input file: "panic" when the Header or a
\* Track does not decode (unwrap), "exit" when bitcell_time is not 0, else
\* the Scp value
LoadFile(f) ==
    LET h == DecodeHeader(f) IN
    IF ~IsSome(h) THEN [res |-> "panic"]
    ELSE IF h.bitcell_time # 0 THEN [res |-> "exit"]
    ELSE LET ts == LoadTracks(f, h) IN
         IF \E s \in 1..NumSlots : h.track_data_headers[s] # Zero /\ ~IsSome(ts[s])
         THEN [res |-> "panic"]
         ELSE [res |-> "ok", scp |-> [header |-> h, tracks |-> ts]]

\* line 83-100: the inputs are loaded in order
LoadInput ==
    /\ pc = "load"
    /\ Len(scp_in_files) < NumInputs
    /\ LET r == LoadFile(in_bytes[Len(scp_in_files) + 1]) IN
          IF r.res = "ok"
          THEN /\ scp_in_files' = Append(scp_in_files, r.scp)
               /\ pc' = IF Len(scp_in_files) + 1 = NumInputs THEN "create" ELSE pc
          ELSE /\ pc' = r.res
               /\ UNCHANGED scp_in_files
    /\ UNCHANGED <<args, in_bytes, p, track_params, scp_out_header, out_created,
                   out_file, out_pos, sum, i, j, new_track, track_header_pos,
                   out_tracks, out_writes, ckvars, runvars>>

\* lines 102-105
CreateOutput ==
    /\ pc = "create"
    /\ scp_out_header' = [scp_in_files[1].header EXCEPT !.checksum = Zero]
    /\ out_created' = TRUE
    /\ out_file' = <<>>
    /\ out_pos' = 0
    /\ out_writes' = <<>>
    /\ sum' = Zero
    /\ pc' = "header"
    /\ UNCHANGED <<args, in_bytes, p, track_params, scp_in_files, i, j, new_track,
                   track_header_pos, out_tracks, ckvars, runvars>>

\* a write of len bytes at position pos of the output: op names the
\* statement, slot and rev the loop indices (NumSlots and 0 where none)
WriteRec(op, slot, rev, pos, len) ==
    [op |-> op, slot |-> slot, rev |-> rev, pos |-> pos, len |-> len]

\* line 106
WritePlaceholderHeader ==
    /\ pc = "header"
    /\ out_file' = WriteAt(out_file, out_pos, EncodeHeader(scp_out_header))
    /\ out_writes' = Append(out_writes, WriteRec("header", NumSlots, 0, out_pos, HeaderSize))
    /\ out_pos' = out_pos + HeaderSize
    /\ i' = 0
    /\ pc' = "loop"
    /\ UNCHANGED <<args, in_bytes, p, track_params, scp_in_files, scp_out_header,
                   out_created, sum, j, new_track, track_header_pos, out_tracks, ckvars, runvars>>

\* Faulty variant: presence is taken from source 1 where the table selects it
SlotPresent_selected(s) ==
    IF track_params[s + 1] = 1 THEN IsSome(scp_in_files[2].tracks[s + 1])
    ELSE IsSome(scp_in_files[1].tracks[s + 1])

\* line 108: does the loop treat slot s as present
SlotPresent(s) == IsSome(scp_in_files[1].tracks[s + 1])

\* the first slot >= s that the loop treats as present, or NumSlots
NextPresent(s) ==
    LET later == {m \in s..(NumSlots - 1) : SlotPresent(m)}
    IN  IF later = {} THEN NumSlots
        ELSE CHOOSE n \in later : \A m \in later : n <= m

\* lines 107-111: the iterations for a run of consecutive slots that
\* source 0 lacks; they do no I/O and are taken in one step
SkipAbsent ==
    /\ pc = "loop"
    /\ i < NumSlots
    /\ ~SlotPresent(i)
    /\ LET n == NextPresent(i) IN
          /\ scp_out_header' =
                [scp_out_header EXCEPT !.track_data_headers =
                    [s \in 1..NumSlots |->
                        IF s - 1 >= i /\ s - 1 < n THEN Zero
                        ELSE scp_out_header.track_data_headers[s]]]
          /\ i' = n
    /\ UNCHANGED <<args, in_bytes, pc, p, track_params, scp_in_files, out_created,
                   out_file, out_pos, sum, j, new_track, track_header_pos,
                   out_tracks, out_writes, ckvars, runvars>>

\* Faulty variant: the selection table is ignored
SourceIndex_first(s) == 0

\* line 112: the index of the source that supplies slot s
SourceIndex(s) == track_params[s + 1]

\* Faulty variant: a Track missing from the selected source is taken from source 0
SelectedTrack_fallback(s) ==
    IF SourceIndex(s) >= Len(scp_in_files) THEN None
    ELSE IF scp_in_files[SourceIndex(s) + 1].tracks[s + 1] = None
    THEN scp_in_files[1].tracks[s + 1]
    ELSE scp_in_files[SourceIndex(s) + 1].tracks[s + 1]

\* lines 112-113: the Track cloned for slot s, or None when the lookup
\* panics: the source index is out of bounds of scp_in_files, or the
\* selected source has no Track at s (unwrap of None)
SelectedTrack(s) ==
    IF SourceIndex(s) >= Len(scp_in_files) THEN None
    ELSE scp_in_files[SourceIndex(s) + 1].tracks[s + 1]

\* Faulty variant: the position is taken relative to the end of the Header
TrackDataHeader_relative(pos) == u32(pos - HeaderSize)

\* line 115: the Header entry for a Track written at position pos
TrackDataHeader(pos) == u32(pos)

\* lines 112-116: the Track of the selected source is cloned, its position
\* recorded in the Header, and the Track written as it is
BeginTrack ==
    /\ pc = "loop"
    /\ i < NumSlots
    /\ SlotPresent(i)
    /\ LET t == SelectedTrack(i) IN
       IF ~IsSome(t)
       THEN /\ pc' = "panic"
            /\ UNCHANGED <<scp_out_header, out_file, out_pos, j, new_track,
                           track_header_pos, out_writes>>
       ELSE /\ new_track' = t
            /\ track_header_pos' = out_pos
            /\ scp_out_header' =
                  [scp_out_header EXCEPT !.track_data_headers[i + 1] =
                      TrackDataHeader(out_pos)]
            /\ out_file' = WriteAt(out_file, out_pos, EncodeTrack(t))
            /\ out_writes' = Append(out_writes,
                    WriteRec("track", i, 0, out_pos, Len(EncodeTrack(t))))
            /\ out_pos' = out_pos + Len(EncodeTrack(t))
            /\ j' = 0
            /\ pc' = "revs"
    /\ UNCHANGED <<args, in_bytes, p, track_params, scp_in_files, out_created,
                   sum, i, out_tracks, ckvars, runvars>>

\* lines 119-120: where revolution r (1-based) of slot s lies in source k
FluxSeekPos(k, s, r) ==
    val(scp_in_files[k].header.track_data_headers[s + 1])
        + val(scp_in_files[k].tracks[s + 1].revs[r].offset)

\* Faulty variant: one byte per bitcell
FluxLen_single(k, s, r) == val(scp_in_files[k].tracks[s + 1].revs[r].num_bitcells)

\* line 121: the length of the buffer read for it
FluxLen(k, s, r) == val(scp_in_files[k].tracks[s + 1].revs[r].num_bitcells) * 2

\* Faulty variant: the offset is the absolute position of the payload
RewrittenRev_absolute(rev, pos, thp) == [rev EXCEPT !.offset = u32(pos)]

\* Faulty variant: the duration is cleared as well
RewrittenRev_retimed(rev, pos, thp) ==
    [rev EXCEPT !.offset = u32(pos - thp), !.duration = Zero]

\* Faulty variant: the offset is left as the source stored it
RewrittenRev_stale(rev, pos, thp) == rev

\* lines 123-124: the revolution of the output Track once its payload is
\* appended at position pos, the Track starting at position thp
RewrittenRev(rev, pos, thp) == [rev EXCEPT !.offset = u32(pos - thp)]

\* Faulty variant: the revolutions are visited last to first
RevAt_reversed(done, n) == n - done

\* line 117: the revolution (1-based) visited after done of the n
\* revolutions have been copied
RevAt(done, n) == done + 1

\* lines 117-127, one revolution: read_exact fails (Err) when the source
\* file ends before the buffer is full
CopyRev ==
    /\ pc = "revs"
    /\ j < Len(new_track.revs)
    /\ LET k    == SourceIndex(i) + 1
           r    == RevAt(j, Len(new_track.revs))
           pos  == FluxSeekPos(k, i, r)
           n    == FluxLen(k, i, r)
       IN  IF n > 0 /\ pos + n > Len(in_bytes[k])
           THEN /\ pc' = "err"
                /\ UNCHANGED <<new_track, sum, out_file, out_pos, j, out_writes>>
           ELSE LET flux_data == Slice(in_bytes[k], pos, n)
                IN  /\ new_track' =
                          [new_track EXCEPT !.revs[r] =
                              RewrittenRev(@, out_pos, track_header_pos)]
                    /\ sum' = wrapping_add(sum, checksum(flux_data))
                    /\ out_file' = WriteAt(out_file, out_pos, flux_data)
                    /\ out_writes' = Append(out_writes,
                            WriteRec("flux", i, r, out_pos, n))
                    /\ out_pos' = out_pos + n
                    /\ j' = j + 1
                    /\ pc' = pc
    /\ UNCHANGED <<args, in_bytes, p, track_params, scp_in_files, scp_out_header,
                   out_created, i, track_header_pos, out_tracks, ckvars, runvars>>

\* Faulty variant: the stream stays where the last payload ended
RewriteSeek_stay(thp, cur) == cur

\* line 128: the position the stream is moved to before the Track is
\* written again, thp the recorded Track position, cur the current position
RewriteSeek(thp, cur) == thp

\* lines 128-133: the Track is rewritten in place, the position returns to
\* the end of the file, and the loop moves to the next slot
RewriteTrack ==
    /\ pc = "revs"
    /\ j = Len(new_track.revs)
    /\ LET track_header_data == EncodeTrack(new_track)
           at == RewriteSeek(track_header_pos, out_pos)
           f == WriteAt(out_file, at, track_header_data)
       IN  /\ sum' = wrapping_add(sum, checksum(track_header_data))
           /\ out_file' = f
           /\ out_writes' = Append(out_writes,
                   WriteRec("retrack", i, 0, at, Len(track_header_data)))
           /\ out_pos' = Len(f)
    /\ out_tracks' = [out_tracks EXCEPT ![i + 1] = new_track]
    /\ i' = i + 1
    /\ pc' = "loop"
    /\ UNCHANGED <<args, in_bytes, p, track_params, scp_in_files, scp_out_header,
                   out_created, j, new_track, track_header_pos, ckvars, runvars>>

\* Faulty variant: the whole serialised Header enters the checksum
HeaderSumSpan_whole(bytes) == bytes

\* line 137: the bytes of the serialised Header that enter the checksum
HeaderSumSpan(bytes) == Slice(bytes, ChecksumFrom, Len(bytes) - ChecksumFrom)

\* lines 135-141: the Header is serialised, its bytes from 0x10 summed, and
\* the Header with the checksum written at the start of the file
FinishHeader ==
    /\ pc = "loop"
    /\ i = NumSlots
    /\ LET header_for_checksum == EncodeHeader(scp_out_header)
           total == wrapping_add(sum, checksum(HeaderSumSpan(header_for_checksum)))
           h == [scp_out_header EXCEPT !.checksum = total]
       IN  /\ sum' = total
           /\ scp_out_header' = h
           /\ out_file' = WriteAt(out_file, 0, EncodeHeader(h))
           /\ out_writes' = Append(out_writes, WriteRec("reheader", NumSlots, 0, 0, HeaderSize))
           /\ out_pos' = HeaderSize
    /\ pc' = "done"
    /\ UNCHANGED <<args, in_bytes, p, track_params, scp_in_files, out_created,
                   i, j, new_track, track_header_pos, out_tracks, ckvars, runvars>>

Next ==
    \/ CheckArgs
    \/ ApplyParam
    \/ ParamsDone
    \/ LoadInput
    \/ CreateOutput
    \/ WritePlaceholderHeader
    \/ SkipAbsent
    \/ BeginTrack
    \/ CopyRev
    \/ RewriteTrack
    \/ FinishHeader

Spec == Init /\ [][Next]_vars

\* ------------------------------------------------------------------------
\* Runs in which an operation on the output or on a source file fails
\* ------------------------------------------------------------------------

\* the inputs of the runs with failing operations
IoShapes == {sh \in Shapes : sh.rc = MaxRevs /\ sh.v \in {"canon", "wide", "cut"}}

InitIo == InitWith(IoShapes, IoShapes)

\* Faulty variant: the Err is dropped and main carries on where it was
Propagate_ignore(at) == at

\* the ? operator on an Err (lines 104-140): main returns the error from
\* the position at
Propagate(at) == "err"

\* the merge loop is at a slot that has a Track to write
AtTrack == pc = "loop" /\ i < NumSlots /\ SlotPresent(i) /\ IsSome(SelectedTrack(i))

\* the merge loop is at a revolution whose payload has been read
AtFlux ==
    /\ pc = "revs"
    /\ j < Len(new_track.revs)
    /\ LET k == SourceIndex(i) + 1
           r == RevAt(j, Len(new_track.revs))
       IN  FluxSeekPos(k, i, r) + FluxLen(k, i, r) <= Len(in_bytes[k])

\* the write the run makes next: lines 106, 116, 126, 132, 140
PendingWrite ==
    CASE pc = "header" ->
            [rec |-> WriteRec("header", NumSlots, 0, out_pos, HeaderSize),
             data |-> EncodeHeader(scp_out_header)]
      [] AtTrack ->
            [rec |-> WriteRec("track", i, 0, out_pos, TrackSize(Len(SelectedTrack(i).revs))),
             data |-> EncodeTrack(SelectedTrack(i))]
      [] AtFlux ->
            LET k == SourceIndex(i) + 1
                r == RevAt(j, Len(new_track.revs))
            IN  [rec |-> WriteRec("flux", i, r, out_pos, FluxLen(k, i, r)),
                 data |-> Slice(in_bytes[k], FluxSeekPos(k, i, r), FluxLen(k, i, r))]
      [] pc = "revs" /\ j = Len(new_track.revs) ->
            [rec |-> WriteRec("retrack", i, 0, RewriteSeek(track_header_pos, out_pos),
                              TrackSize(Len(new_track.revs))),
             data |-> EncodeTrack(new_track)]
      [] pc = "loop" /\ i = NumSlots ->
            LET total == wrapping_add(sum,
                             checksum(HeaderSumSpan(EncodeHeader(scp_out_header))))
            IN  [rec |-> WriteRec("reheader", NumSlots, 0, 0, HeaderSize),
                 data |-> EncodeHeader([scp_out_header EXCEPT !.checksum = total])]
      [] OTHER -> None

\* how many bytes of an n-byte write can have reached the file when the
\* write fails: none, or a proper part of them
PartialLens(n) == {0, n \div 2}

\* line 104: File::create fails, no output file is opened
FailCreate ==
    /\ pc = "create"
    /\ pc' = Propagate(pc)
    /\ UNCHANGED <<args, in_bytes, p, track_params, scp_in_files, scp_out_header,
                   out_created, out_file, out_pos, sum, i, j, new_track,
                   track_header_pos, out_tracks, out_writes, ckvars, runvars>>

\* lines 114, 119, 122, 123, 128, 139: a stream_position, seek or
\* read_exact fails; the output file is as it was
FailSeekOrRead ==
    /\ \/ AtTrack
       \/ pc = "revs"
       \/ pc = "loop" /\ i = NumSlots
    /\ pc' = Propagate(pc)
    /\ UNCHANGED <<args, in_bytes, p, track_params, scp_in_files, scp_out_header,
                   out_created, out_file, out_pos, sum, i, j, new_track,
                   track_header_pos, out_tracks, out_writes, ckvars, runvars>>

\* lines 106, 116, 126, 132, 140: a write fails after part of its bytes
\* (or none) reached the file; the locals are not used after the return
FailWrite ==
    /\ IsSome(PendingWrite)
    /\ Len(PendingWrite.data) > 0
    /\ \E n \in PartialLens(Len(PendingWrite.data)) :
          LET w == PendingWrite.rec
          IN  /\ out_file' = WriteAt(out_file, w.pos, SubSeq(PendingWrite.data, 1, n))
              /\ out_pos' = w.pos + n
              /\ out_writes' = Append(out_writes,
                      WriteRec("failed", w.slot, w.rev, w.pos, n))
    /\ pc' = Propagate(pc)
    /\ UNCHANGED <<args, in_bytes, p, track_params, scp_in_files, scp_out_header,
                   out_created, sum, i, j, new_track, track_header_pos,
                   out_tracks, ckvars, runvars>>

\* line 133: the seek to the end fails after the Track was rewritten, and
\* unwrap panics
FailSeekEnd ==
    /\ pc = "revs"
    /\ j = Len(new_track.revs)
    /\ LET track_header_data == EncodeTrack(new_track)
           at == RewriteSeek(track_header_pos, out_pos)
       IN  /\ sum' = wrapping_add(sum, checksum(track_header_data))
           /\ out_file' = WriteAt(out_file, at, track_header_data)
           /\ out_writes' = Append(out_writes,
                   WriteRec("retrack", i, 0, at, Len(track_header_data)))
           /\ out_pos' = at + Len(track_header_data)
    /\ out_tracks' = [out_tracks EXCEPT ![i + 1] = new_track]
    /\ pc' = "panic"
    /\ UNCHANGED <<args, in_bytes, p, track_params, scp_in_files, scp_out_header,
                   out_created, i, j, new_track, track_header_pos, ckvars, runvars>>

NextIo ==
    \/ Next
    \/ FailCreate
    \/ FailSeekOrRead
    \/ FailWrite
    \/ FailSeekEnd

SpecIo == InitIo /\ [][NextIo]_vars

\* ------------------------------------------------------------------------
\* Two runs of main, the second on inputs related to those of the first
\* ------------------------------------------------------------------------

\* sources of the first run
RerunShapes0 == {[rc |-> MaxRevs, v |-> "canon"], [rc |-> MaxRevs, v |-> "wide"],
                 [rc |-> MaxRevs, v |-> "loose"]}
RerunShapes1 == {[rc |-> MaxRevs, v |-> "canon"], [rc |-> MaxRevs, v |-> "wide"],
                 [rc |-> 1, v |-> "canon"]}

\* source 1 of the second run
OtherShapes == {[rc |-> MaxRevs, v |-> "badck"], [rc |-> MaxRevs, v |-> "spread"],
                [rc |-> MaxRevs, v |-> "solo"], [rc |-> 1, v |-> "spread"]}

\* command lines of the second run
RerunArgSets ==
    { [n_in |-> 2, tracks |-> <<>>],
      [n_in |-> 2, tracks |-> << <<0, 5, 1>> >>],
      [n_in |-> 2, tracks |-> << <<0, 5, 1>>, <<1, 83, 1>> >>],
      [n_in |-> 2, tracks |-> << <<0, 5, 1>>, <<1, 1, 2>> >>],
      [n_in |-> 2, tracks |-> << <<0, 0, 1>>, <<0, 5, 1>> >>] }

InitRerun == InitWith(RerunShapes0, RerunShapes1)

\* main is entered again with the input files bytes and the command line
\* a; f records the run that has ended
Restart(bytes, a, f) ==
    /\ in_bytes' = bytes
    /\ args' = a
    /\ pc' = "start"
    /\ p' = 0
    /\ track_params' = <<>>
    /\ scp_in_files' = <<>>
    /\ scp_out_header' = None
    /\ out_created' = FALSE
    /\ out_file' = <<>>
    /\ out_pos' = 0
    /\ sum' = Zero
    /\ i' = 0
    /\ j' = 0
    /\ new_track' = None
    /\ track_header_pos' = 0
    /\ out_tracks' = [s \in 1..NumSlots |-> None]
    /\ out_writes' = <<>>
    /\ run' = 2
    /\ first' = f
    /\ UNCHANGED ckvars

\* the run that has ended
EndedRun(kind) ==
    [kind |-> kind, in_bytes |-> in_bytes, track_params |-> track_params,
     scp_in_files |-> scp_in_files, pc |-> pc, out_created |-> out_created,
     out_file |-> out_file]

\* after a successful merge of two sources with equal rev_count, the
\* output file is given to main as both inputs
MergeOutputWithItself ==
    /\ run = 1
    /\ pc = "done"
    /\ scp_in_files[1].header.rev_count = scp_in_files[2].header.rev_count
    /\ \E a \in RerunArgSets : Restart(<<out_file, out_file>>, a, EndedRun("self"))

\* after a run that loaded both inputs, main is run with the same source 0,
\* another source 1 and another command line
RunWithOtherSource ==
    /\ run = 1
    /\ pc \in {"done", "panic", "err"}
    /\ Len(scp_in_files) = NumInputs
    /\ \E sh \in OtherShapes :
          LET f1 == BuildImage(sh)
          IN  \E a \in RerunArgSets :
                  Restart(<<in_bytes[1], f1>>, a, EndedRun("other"))

NextRerun ==
    \/ Next
    \/ MergeOutputWithItself
    \/ RunWithOtherSource

SpecRerun == InitRerun /\ [][NextRerun]_vars

\* ------------------------------------------------------------------------
\* The checksum function on its own: two byte spans are folded into a
\* running total, in either order
\* ------------------------------------------------------------------------
SpanBytes == {0, 1, 255}

Spans == UNION {[1..n -> SpanBytes] : n \in 0..MaxSpan}

\* running totals to start from: 0, and values from which the fold wraps
StartSums == {Zero, <<0, U16 - 1>>, <<U16 - 1, U16 - U8>>, <<U16 - 1, U16 - 1>>}

InitChecksum ==
    /\ args = [n_in |-> 0, tracks |-> <<>>]
    /\ in_bytes = <<>>
    /\ pc = "checksum"
    /\ p = 0
    /\ track_params = <<>>
    /\ scp_in_files = <<>>
    /\ scp_out_header = None
    /\ out_created = FALSE
    /\ out_file = <<>>
    /\ out_pos = 0
    /\ sum = Zero
    /\ i = 0
    /\ j = 0
    /\ new_track = None
    /\ track_header_pos = 0
    /\ out_tracks = <<>>
    /\ out_writes = <<>>
    /\ run = 1
    /\ first = None
    /\ ck_a \in Spans
    /\ ck_b \in Spans
    /\ ck_start \in StartSums
    /\ ck_sum = ck_start
    /\ ck_folded = {}

\* sum = sum.wrapping_add(checksum(&a))
FoldA ==
    /\ "a" \notin ck_folded
    /\ ck_sum' = wrapping_add(ck_sum, checksum(ck_a))
    /\ ck_folded' = ck_folded \cup {"a"}
    /\ UNCHANGED <<mainvars, ck_a, ck_b, ck_start, runvars>>

\* sum = sum.wrapping_add(checksum(&b))
FoldB ==
    /\ "b" \notin ck_folded
    /\ ck_sum' = wrapping_add(ck_sum, checksum(ck_b))
    /\ ck_folded' = ck_folded \cup {"b"}
    /\ UNCHANGED <<mainvars, ck_a, ck_b, ck_start, runvars>>

NextChecksum ==
    \/ FoldA
    \/ FoldB

SpecChecksum == InitChecksum /\ [][NextChecksum]_vars

\* ------------------------------------------------------------------------
\* Vocabulary of the properties
\* ------------------------------------------------------------------------
Slots == 0..(NumSlots - 1)

\* both inputs are loaded
Loaded == Len(scp_in_files) = NumInputs

\* source k (0 or 1) has a Track at slot s
HasTrack(k, s) == IsSome(scp_in_files[k + 1].tracks[s + 1])

\* the plain sum of the bytes f[lo..hi] (1-based, inclusive)
RECURSIVE NatSum(_, _, _)
NatSum(f, lo, hi) ==
    IF lo > hi THEN 0
    ELSE IF lo = hi THEN f[lo]
    ELSE LET mid == (lo + hi) \div 2
         IN  NatSum(f, lo, mid) + NatSum(f, mid + 1, hi)

\* total payload length of the first r revolutions of Track t
RECURSIVE PayloadLen(_, _)
PayloadLen(t, r) ==
    IF r = 0 THEN 0 ELSE 2 * val(t.revs[r].num_bitcells) + PayloadLen(t, r - 1)

\* a Track structure together with its payloads
TrackSpan(t) == TrackSize(Len(t.revs)) + PayloadLen(t, Len(t.revs))

\* total span of the Tracks ts[s + 1], s in S
RECURSIVE SpanSum(_, _)
SpanSum(ts, S) ==
    IF S = {} THEN 0
    ELSE LET m == CHOOSE m \in S : TRUE
         IN  TrackSpan(ts[m + 1]) + SpanSum(ts, S \ {m})

\* the slots for which a Track has been rewritten into the output
Written == {s \in Slots : IsSome(out_tracks[s + 1])}

\* the payload bytes of revolution r of slot s in the file of source k,
\* located from that source's own offsets
SourcePayload(k, s, r) ==
    LET st == scp_in_files[k + 1].tracks[s + 1]
    IN  Slice(in_bytes[k + 1],
              val(scp_in_files[k + 1].header.track_data_headers[s + 1])
                  + val(st.revs[r].offset),
              2 * val(st.revs[r].num_bitcells))

\* the byte sum of the Track structure and the payloads of the slots in S
RECURSIVE WrittenSum(_)
WrittenSum(S) ==
    IF S = {} THEN 0
    ELSE LET s  == CHOOSE m \in S : TRUE
             t  == out_tracks[s + 1]
             e  == EncodeTrack(t)
             k  == track_params[s + 1]
             pl == [r \in 1..Len(t.revs) |->
                       LET d == SourcePayload(k, s, r) IN NatSum(d, 1, Len(d))]
         IN  NatSum(e, 1, Len(e)) + NatSum(pl, 1, Len(pl)) + WrittenSum(S \ {s})

\* C1: after a successful merge the checksum stored at offset 0x0C of the
\* output file is the byte sum, modulo 2^32, of the file from offset 16 to
\* its end, and that is the sum of the Header bytes from 16 on, of the
\* rewritten Track structures and of the copied payloads.
C1_ChecksumMatchesFile ==
    pc = "done" =>
        /\ Len(out_file) >= HeaderSize
        /\ RdLE32(out_file, ChecksumAt) = u32(NatSum(out_file, ChecksumFrom + 1, Len(out_file)))
        /\ RdLE32(out_file, ChecksumAt) =
              u32(NatSum(out_file, ChecksumFrom + 1, HeaderSize) + WrittenSum(Written))

C1_Witness ==
    /\ pc = "done"
    /\ Cardinality(Written) = 2
    /\ \E s \in Written : track_params[s + 1] = 1
    /\ RdLE32(out_file, ChecksumAt) # Zero

\* C2: a slot that source 0 lacks has offset 0 in the output Header, in
\* memory and on disk, and nothing is ever written for it, whatever the
\* selection table holds and whether or not source 1 has a Track there.
C2_AbsentSlotsStayEmpty ==
    (Loaded /\ out_created) =>
        /\ \A s \in Slots :
              ~HasTrack(0, s) =>
                  /\ scp_out_header.track_data_headers[s + 1] = Zero
                  /\ Len(out_file) >= HeaderSize =>
                         RdLE32(out_file, ChecksumFrom + 4 * s) = Zero
                  /\ out_tracks[s + 1] = None
                  /\ ~(pc = "revs" /\ i = s)
        /\ pc \in {"loop", "done"} =>
              Len(out_file) = HeaderSize + SpanSum(out_tracks, Written)

C2_Witness ==
    /\ pc = "done"
    /\ \E s \in Slots : ~HasTrack(0, s) /\ HasTrack(1, s) /\ track_params[s + 1] = 1
    /\ \E s \in Slots : ~HasTrack(0, s) /\ RdLE32(out_file, ChecksumFrom + 4 * s) = Zero

\* the Header and the Track of slot s as they stand in the output file, the
\* Track decoded with n revolutions
OutHeader == DecodeHeader(out_file)
OutTrack(s, n) == DecodeTrack(out_file, val(OutHeader.track_data_headers[s + 1]), n)

\* C3: after a successful merge, for every slot present in source 0 and
\* every revolution, the num_bitcells*2 bytes of the output at (output
\* track offset + output revolution offset) are the bytes of the selected
\* source at (its track offset + its revolution offset).
C3_FluxFromSelectedSource ==
    pc = "done" =>
        \A s \in Slots :
            HasTrack(0, s) =>
                LET k  == track_params[s + 1]
                    st == scp_in_files[k + 1].tracks[s + 1]
                    ot == OutTrack(s, Len(st.revs))
                    op == val(OutHeader.track_data_headers[s + 1])
                IN  /\ k < NumInputs
                    /\ IsSome(st)
                    /\ IsSome(ot)
                    /\ \A r \in 1..Len(st.revs) :
                          LET n == 2 * val(st.revs[r].num_bitcells)
                              o == op + val(ot.revs[r].offset)
                          IN  /\ o + n <= Len(out_file)
                              /\ Slice(out_file, o, n) = SourcePayload(k, s, r)

C3_Witness ==
    /\ pc = "done"
    /\ \E s \in Slots :
          /\ HasTrack(0, s) /\ HasTrack(1, s)
          /\ track_params[s + 1] = 1
          /\ \E r \in 1..Len(scp_in_files[2].tracks[s + 1].revs) :
                /\ Len(SourcePayload(1, s, r)) > 0
                /\ r <= Len(scp_in_files[1].tracks[s + 1].revs)
                /\ SourcePayload(1, s, r) # SourcePayload(0, s, r)
    /\ \E s \in Slots : HasTrack(0, s) /\ track_params[s + 1] = 0

\* C4: loading the output of a successful merge with the image loader
\* succeeds, and every decoded Track is the Track written for its slot,
\* with as many Revolutions as the output Header's revolution_count.
C4_OutputRoundTrips ==
    pc = "done" =>
        LET r == LoadFile(out_file)
        IN  /\ r.res = "ok"
            /\ \A s \in Slots :
                  /\ r.scp.tracks[s + 1] = out_tracks[s + 1]
                  /\ IsSome(out_tracks[s + 1]) =>
                        Len(out_tracks[s + 1].revs) = r.scp.header.rev_count

\* the merges of C4 whose two sources have the same revolution_count do
\* round-trip
C4_SameRevCountRoundTrips ==
    (pc = "done" /\ scp_in_files[1].header.rev_count = scp_in_files[2].header.rev_count)
        => C4_OutputRoundTrips

\* C5 as claimed: in every Track written to the output the revolution
\* offsets strictly increase in revolution order, for every num_bitcells.
C5_OffsetsStrictlyIncrease ==
    \A s \in Written :
        LET revs == out_tracks[s + 1].revs
        IN  \A r \in 1..(Len(revs) - 1) : val(revs[r + 1].offset) > val(revs[r].offset)

\* C5, amended: in every Track written to the output the first offset is
\* the size of the Track structure and each further offset is the previous
\* one plus the previous payload length: offsets never decrease, and
\* offset r+1 > offset r exactly when revolution r has num_bitcells > 0.
C5_OffsetsNeverDecrease ==
    \A s \in Written :
        LET revs == out_tracks[s + 1].revs
        IN  /\ Len(revs) > 0 => val(revs[1].offset) >= TrackSize(Len(revs))
            /\ \A r \in 1..(Len(revs) - 1) :
                  /\ val(revs[r + 1].offset) >= val(revs[r].offset)
                  /\ val(revs[r + 1].offset) > val(revs[r].offset)
                        <=> val(revs[r].num_bitcells) > 0

C5_Witness ==
    /\ pc = "done"
    /\ \E s \in Written :
          LET revs == out_tracks[s + 1].revs
          IN  /\ Len(revs) >= 2
              /\ val(revs[1].num_bitcells) = 0
              /\ val(revs[2].offset) = val(revs[1].offset)
    /\ \E s \in Written :
          LET revs == out_tracks[s + 1].revs
          IN  /\ Len(revs) >= 2
              /\ val(revs[1].num_bitcells) > 0
              /\ val(revs[2].offset) > val(revs[1].offset)
              \* the source stored this Track's payloads in the opposite order
              /\ val(scp_in_files[track_params[s + 1] + 1].tracks[s + 1].revs[2].offset)
                    < val(scp_in_files[track_params[s + 1] + 1].tracks[s + 1].revs[1].offset)

\* a file laid out the way the merge lays out its output: the Header, then
\* for each present slot in index order the Track structure directly
\* followed by its payloads in revolution order, nothing else, and the
\* stored checksum equal to the byte sum from offset 16
Canonical(f) ==
    LET h == DecodeHeader(f) IN
    /\ IsSome(h)
    /\ LET ts      == LoadTracks(f, h)
           present == {s \in Slots : h.track_data_headers[s + 1] # Zero}
       IN  /\ \A s \in present : IsSome(ts[s + 1])
           /\ \A s \in present :
                 /\ val(h.track_data_headers[s + 1]) =
                       HeaderSize + SpanSum(ts, {m \in present : m < s})
                 /\ \A r \in 1..h.rev_count :
                       val(ts[s + 1].revs[r].offset) =
                           TrackSize(h.rev_count) + PayloadLen(ts[s + 1], r - 1)
           /\ Len(f) = HeaderSize + SpanSum(ts, present)
           /\ h.checksum = u32(NatSum(f, ChecksumFrom + 1, Len(f)))

\* an image merged with itself under the all-zero selection table
SelfMerge ==
    /\ in_bytes[1] = in_bytes[2]
    /\ \A s \in Slots : track_params[s + 1] = 0

\* C6 as claimed: merging a valid image with itself under an all-zero
\* table gives a file byte-for-byte equal to it (so with its checksum).
C6_SelfMergeIsIdentity ==
    (pc = "done" /\ SelfMerge) => out_file = in_bytes[1]

\* C6, amended: the self-merge reproduces every slot's flux bytes; the
\* output equals the input byte for byte, stored checksum included, when
\* the input is laid out canonically with a correct stored checksum.
C6_SelfMergeKeepsFlux ==
    (pc = "done" /\ SelfMerge) =>
        /\ C3_FluxFromSelectedSource
        /\ Canonical(out_file)
        /\ Canonical(in_bytes[1]) => out_file = in_bytes[1]
        /\ out_file = in_bytes[1] => Canonical(in_bytes[1])

C6_Witness ==
    /\ pc = "done"
    /\ SelfMerge
    /\ Cardinality(Written) = 2
    /\ Canonical(in_bytes[1])
    /\ out_file = in_bytes[1]
    /\ RdLE32(out_file, ChecksumAt) = RdLE32(in_bytes[1], ChecksumAt)

\* input k (1 or 2) has a Header that decodes and whose bitcell_time is not 0
BadBitcell(k) ==
    LET h == DecodeHeader(in_bytes[k]) IN IsSome(h) /\ h.bitcell_time # 0

\* C7: when an input's Header has bitcell_time # 0 the run never gets past
\* loading: that input is never added to the loaded images, the output
\* file is never created, no byte of it is written and no merge step runs;
\* a run that ends with the "unsupported" exit ends on such an input.
C7_UnsupportedStopsBeforeOutput ==
    /\ (BadBitcell(1) \/ BadBitcell(2)) =>
          /\ pc \in {"start", "params", "load", "exit", "panic", "err"}
          /\ ~out_created
          /\ out_file = <<>>
          /\ \A k \in 1..NumInputs : BadBitcell(k) => Len(scp_in_files) < k
    /\ (pc = "exit" /\ args.n_in = NumInputs) => BadBitcell(Len(scp_in_files) + 1)

C7_Witness ==
    /\ pc = "exit"
    /\ Len(scp_in_files) = 1
    /\ ~BadBitcell(1)
    /\ BadBitcell(2)
    /\ ~out_created

\* an override <<a, b, c>> that breaks the rules of the selection input
BadOverride(t) == ParamIndex(t) \notin Slots \/ t[3] \notin {0, 1}

SelectionViolation ==
    \/ args.n_in # NumInputs
    \/ \E n \in 1..Len(args.tracks) : BadOverride(args.tracks[n])

\* C8: a run whose selection input is violated (slot index outside 0..168,
\* source index outside {0,1}, or not exactly two inputs) never completes
\* a merge.
C8_ViolationsNeverComplete == SelectionViolation => pc # "done"

\* x + n modulo 2^32 for the u32 x and a number n below 2^16
AddSmall(x, n) ==
    IF x[2] + n < U16 THEN <<x[1], x[2] + n>>
    ELSE <<IF x[1] + 1 = U16 THEN 0 ELSE x[1] + 1, x[2] + n - U16>>

\* C9: checksum is the byte sum modulo 2^32, it is 0 on the empty span,
\* checksum(a ++ b) = checksum(a) + checksum(b) = checksum(b) + checksum(a)
\* with wraparound, and a running total into which both spans have been
\* folded, in either order, is the start value plus the bytes of both.
C9_ChecksumIsWrappingByteSum ==
    /\ checksum(<<>>) = Zero
    /\ checksum(ck_a) = u32(NatSum(ck_a, 1, Len(ck_a)))
    /\ checksum(ck_a \o ck_b) = wrapping_add(checksum(ck_a), checksum(ck_b))
    /\ checksum(ck_a \o ck_b) = wrapping_add(checksum(ck_b), checksum(ck_a))
    /\ checksum(ck_a \o ck_b) = u32(NatSum(ck_a, 1, Len(ck_a)) + NatSum(ck_b, 1, Len(ck_b)))
    /\ ck_folded = {"a"} => ck_sum = AddSmall(ck_start, NatSum(ck_a, 1, Len(ck_a)))
    /\ ck_folded = {"b"} => ck_sum = AddSmall(ck_start, NatSum(ck_b, 1, Len(ck_b)))
    /\ ck_folded = {"a", "b"} =>
          ck_sum = AddSmall(ck_start, NatSum(ck_a \o ck_b, 1, Len(ck_a) + Len(ck_b)))

\* both spans folded into a total that wrapped around 2^32
C9_Witness ==
    /\ ck_folded = {"a", "b"}
    /\ Len(ck_a) > 0 /\ Len(ck_b) > 0
    /\ ck_a # ck_b
    /\ ck_start = <<U16 - 1, U16 - U8>>
    /\ ck_sum[1] = 0
    /\ ck_sum = u32(NatSum(ck_a \o ck_b, 1, Len(ck_a) + Len(ck_b)) - U8)

\* the slots at which the table selects source 1, source 0 has a Track
\* and source 1 has none
MissingSelected ==
    {s \in Slots : HasTrack(0, s) /\ track_params[s + 1] = 1 /\ ~HasTrack(1, s)}

FirstMissingSelected == CHOOSE b \in MissingSelected : \A m \in MissingSelected : b <= m

\* C10: when the table selects source 1 at a slot where source 0 has a Track
\* and source 1 has none, the run does not get past the first such slot b:
\* reaching it, it panics; no Track is started or rewritten for b or a later
\* slot, the file holds only the Header and the slots rewritten before b,
\* the merge never completes, and the Header on disk stays the placeholder
\* (source 0's Header with checksum 0).
C10_MissingSelectedTrackPanics ==
    (Loaded /\ MissingSelected # {}) =>
        LET b == FirstMissingSelected
        IN  /\ pc # "done"
            /\ i <= b
            /\ ~(pc = "revs" /\ i = b)
            /\ pc = "panic" => i = b
            /\ \A s \in Slots : s >= b => out_tracks[s + 1] = None
            /\ pc \in {"loop", "panic"} =>
                  Len(out_file) = HeaderSize + SpanSum(out_tracks, Written)
            /\ Len(out_file) >= HeaderSize =>
                  /\ RdLE32(out_file, ChecksumAt) = Zero
                  /\ Slice(out_file, 0, HeaderSize) =
                        EncodeHeader([scp_in_files[1].header EXCEPT !.checksum = Zero])

C10_Witness ==
    /\ pc = "panic"
    /\ Loaded
    /\ MissingSelected # {}
    /\ i = FirstMissingSelected
    /\ \E s \in Written : s < i
    /\ Len(out_file) > HeaderSize
    /\ RdLE32(out_file, ChecksumAt) = Zero

\* the write last made to the output
LastWrite == out_writes[Len(out_writes)]

\* the first write of slot s with operation op
WriteOf(op, s) ==
    out_writes[CHOOSE w \in 1..Len(out_writes) :
                   /\ out_writes[w].op = op
                   /\ out_writes[w].slot = s
                   /\ \A v \in 1..(w - 1) :
                         ~(out_writes[v].op = op /\ out_writes[v].slot = s)]

HasWrite(op, s) ==
    \E w \in 1..Len(out_writes) : out_writes[w].op = op /\ out_writes[w].slot = s

\* C11: the Track rewrite of a slot writes as many bytes as the placeholder
\* Track written earlier for the slot, at the same position
\* track_header_pos; only the bytes of that Track structure can change, the
\* file length, every payload byte and every other Track stay, and the
\* write position afterwards is the end of the file.
C11_RewriteOverwritesInPlace ==
    [][(pc = "revs" /\ pc' = "loop") =>
          LET placeholder == WriteOf("track", i)
              rewrite     == out_writes'[Len(out_writes')]
          IN  /\ rewrite.op = "retrack" /\ rewrite.slot = i
              /\ rewrite.pos = track_header_pos
              /\ rewrite.pos = placeholder.pos
              /\ rewrite.len = placeholder.len
              /\ rewrite.len = TrackSize(Len(new_track.revs))
              /\ Len(out_file') = Len(out_file)
              /\ \A b \in 1..Len(out_file) :
                    (b <= track_header_pos \/ b > track_header_pos + rewrite.len)
                        => out_file'[b] = out_file[b]
              /\ \A s \in Slots : s # i => out_tracks'[s + 1] = out_tracks[s + 1]
              /\ out_pos' = Len(out_file')
    ]_vars

\* a Track has just been rewritten behind an earlier Track, it has payload
\* bytes after it, and the rewrite changed bytes of the placeholder
C11_Witness ==
    /\ pc = "loop"
    /\ Len(out_writes) > 0
    /\ LastWrite.op = "retrack"
    /\ \E s \in Written : s < LastWrite.slot
    /\ Len(out_file) > LastWrite.pos + LastWrite.len
    /\ out_pos = Len(out_file)
    /\ out_tracks[LastWrite.slot + 1] # SelectedTrack(LastWrite.slot)

\* C12: in the finished output every non-zero track_data_headers[i] is the
\* position at which slot i's Track structure, starting with its magic, was
\* written; these positions are at least the Header size and increase with
\* the slot index, and the bytes of a slot (Track structure and payloads)
\* overlap neither the Header nor the bytes of another slot.
C12_TrackPositionsAreAbsolute ==
    pc = "done" =>
        LET tdh     == OutHeader.track_data_headers
            Present == {s \in Slots : tdh[s + 1] # Zero}
            First(s) == val(tdh[s + 1])
            End(s)  == val(tdh[s + 1]) + TrackSpan(out_tracks[s + 1])
        IN  /\ tdh = scp_out_header.track_data_headers
            /\ Present = Written
            /\ Present = {s \in Slots : HasWrite("track", s)}
            /\ \A s \in Present :
                  /\ WriteOf("track", s).pos = First(s)
                  /\ WriteOf("retrack", s).pos = First(s)
                  /\ Slice(out_file, First(s), 3) = MagicTRK
                  /\ Slice(out_file, First(s), TrackSize(Len(out_tracks[s + 1].revs)))
                        = EncodeTrack(out_tracks[s + 1])
                  /\ First(s) >= HeaderSize
                  /\ End(s) <= Len(out_file)
            /\ \A s, t \in Present : s < t => End(s) <= First(t) /\ First(s) < First(t)
            /\ \A w \in 1..Len(out_writes) :
                  LET r == out_writes[w]
                  IN  IF r.slot = NumSlots
                      THEN r.pos = 0 /\ r.len = HeaderSize
                      ELSE /\ r.slot \in Present
                           /\ r.pos >= First(r.slot)
                           /\ r.pos + r.len <= End(r.slot)

C12_Witness ==
    /\ pc = "done"
    /\ Cardinality(Written) = 2
    /\ \E s, t \in Written :
          /\ s < t
          /\ val(OutHeader.track_data_headers[s + 1]) = HeaderSize
          /\ val(OutHeader.track_data_headers[t + 1]) > HeaderSize + TrackSize(Len(out_tracks[s + 1].revs))
          /\ track_params[t + 1] = 1
          \* the selected source holds this Track at another position
          /\ scp_in_files[2].header.track_data_headers[t + 1]
                # OutHeader.track_data_headers[t + 1]

\* C13: each output revolution's offset is the position at which its
\* payload was appended minus track_header_pos: the first offset of a Track
\* with n revolutions is 4 + 12*n and offset[j+1] = offset[j] +
\* 2*num_bitcells[j], whatever offsets the source stored.
C13_OffsetsAreAppendPositions ==
    \A s \in Written :
        LET revs == out_tracks[s + 1].revs
            n    == Len(revs)
            thp  == WriteOf("track", s).pos
        IN  /\ n > 0 => val(revs[1].offset) = TrackSize(n)
            /\ \A r \in 1..(n - 1) :
                  val(revs[r + 1].offset)
                      = val(revs[r].offset) + 2 * val(revs[r].num_bitcells)
            /\ \A r \in 1..n :
                  \E w \in 1..Len(out_writes) :
                      /\ out_writes[w] =
                            WriteRec("flux", s, r, thp + val(revs[r].offset),
                                     2 * val(revs[r].num_bitcells))
            /\ Slice(out_file, thp, TrackSize(n)) = EncodeTrack(out_tracks[s + 1])

\* a finished Track of at least two revolutions whose source stored other
\* offsets, in another order
C13_Witness ==
    /\ pc = "done"
    /\ \E s \in Written :
          LET revs == out_tracks[s + 1].revs
              src  == scp_in_files[track_params[s + 1] + 1].tracks[s + 1].revs
          IN  /\ Len(revs) >= 2
              /\ val(revs[1].num_bitcells) > 0
              /\ val(revs[2].offset) = TrackSize(Len(revs)) + 2 * val(revs[1].num_bitcells)
              /\ val(src[2].offset) < val(src[1].offset)
              /\ src[2].offset # revs[2].offset

\* the order in which a write may directly follow another
MayFollow(a, b) ==
    CASE a.op = "header"  -> (b.op = "track" \/ b.op = "reheader")
      [] a.op = "track"   -> /\ b.slot = a.slot
                             /\ \/ b.op = "flux" /\ b.rev = 1
                                \/ b.op = "retrack" /\ Len(SelectedTrack(a.slot).revs) = 0
      [] a.op = "flux"    -> /\ b.slot = a.slot
                             /\ \/ b.op = "flux" /\ b.rev = a.rev + 1
                                \/ b.op = "retrack" /\ Len(SelectedTrack(a.slot).revs) = a.rev
      [] a.op = "retrack" -> \/ b.op = "track" /\ b.slot > a.slot
                             \/ b.op = "reheader"
      [] OTHER            -> FALSE

\* C14: the output is written in a fixed order: the placeholder Header
\* first; then the slots in increasing index and within a slot the
\* placeholder Track, the payloads in increasing revolution order and the
\* Track rewrite; the Header rewrite is the last write.  No write for slot
\* k happens before the Track rewrite of every present slot below k.
C14_WritesInFixedOrder ==
    /\ Len(out_writes) > 0 => out_writes[1].op = "header"
    /\ \A w \in 1..(Len(out_writes) - 1) : MayFollow(out_writes[w], out_writes[w + 1])
    /\ \A w \in 1..Len(out_writes) :
          LET k == out_writes[w].slot
          IN  k < NumSlots =>
                 \A s \in 0..(k - 1) :
                     HasTrack(0, s) =>
                         \E v \in 1..(w - 1) :
                             out_writes[v].op = "retrack" /\ out_writes[v].slot = s
    /\ pc = "done" <=> (Len(out_writes) > 0 /\ LastWrite.op = "reheader")
    /\ pc = "done" =>
          \A s \in Slots : HasTrack(0, s) => HasWrite("retrack", s)

\* a finished merge that wrote two slots, one with two payload writes
C14_Witness ==
    /\ pc = "done"
    /\ LastWrite.op = "reheader"
    /\ \E s, t \in Slots :
          /\ s < t
          /\ HasWrite("retrack", s)
          /\ HasWrite("retrack", t)
          /\ \E w \in 1..Len(out_writes) :
                out_writes[w].op = "flux" /\ out_writes[w].slot = t /\ out_writes[w].rev = 2

\* C16: every Track written to the output carries the selected source
\* Track's track_number and, revolution by revolution, its duration and
\* num_bitcells; only the offset field is the merge's own.
C16_TrackFieldsCarriedOver ==
    \A s \in Written :
        LET k  == track_params[s + 1]
            ot == out_tracks[s + 1]
        IN  /\ k < NumInputs
            /\ HasTrack(k, s)
            /\ LET st == scp_in_files[k + 1].tracks[s + 1]
               IN  /\ ot.track_number = st.track_number
                   /\ Len(ot.revs) = Len(st.revs)
                   /\ \A r \in 1..Len(st.revs) :
                         /\ ot.revs[r].duration = st.revs[r].duration
                         /\ ot.revs[r].num_bitcells = st.revs[r].num_bitcells
                   /\ ot = [st EXCEPT !.revs =
                               [r \in 1..Len(st.revs) |->
                                   [st.revs[r] EXCEPT !.offset = ot.revs[r].offset]]]
                   /\ Slice(out_file, WriteOf("track", s).pos, TrackSize(Len(ot.revs)))
                         = EncodeTrack(ot)

\* a finished merge with a Track taken from source 1, whose track_number
\* and durations differ from those source 0 has for the slot, and whose
\* offsets the merge changed
C16_Witness ==
    /\ pc = "done"
    /\ \E s \in Written :
          /\ track_params[s + 1] = 1
          /\ out_tracks[s + 1].track_number = scp_in_files[2].tracks[s + 1].track_number
          /\ out_tracks[s + 1].track_number # scp_in_files[1].tracks[s + 1].track_number
          /\ out_tracks[s + 1].revs[1].duration # scp_in_files[1].tracks[s + 1].revs[1].duration
          /\ out_tracks[s + 1].revs[1].duration # Zero
          /\ out_tracks[s + 1] # scp_in_files[2].tracks[s + 1]

\* the fields of an override a:b:c in the order the claim names them
OverrideTrackNumber(t) == t[1]
OverrideSide(t) == t[2]
OverrideSource(t) == t[3]

C17_OverrideSetsFirstPlusTwiceSecond ==
    [][/\ (pc = "start" /\ pc' = "params") =>
              track_params' = [s \in 1..NumSlots |-> 0]
       /\ (pc = "params" /\ p' = p + 1) =>
              LET t == args.tracks[p + 1]
              IN  track_params' =
                      [s \in 1..NumSlots |->
                          IF s - 1 = t[1] + t[2] * 2 THEN t[3] ELSE track_params[s]]
    ]_vars

\* the run has ended without completing
Aborted == pc \in {"exit", "panic", "err"}

HasFailedWrite == \E w \in 1..Len(out_writes) : out_writes[w].op = "failed"

\* C15: when a read, write or seek fails during the merge the run aborts at
\* that step: the failed operation is not attempted again, no later write
\* to the output happens, the final Header rewrite with the checksum does
\* not occur, and the bytes written before stay as they are.
C15_IoFailureAborts ==
    /\ [](HasFailedWrite =>
              /\ Aborted
              /\ LastWrite.op = "failed"
              /\ \A w \in 1..(Len(out_writes) - 1) :
                    out_writes[w].op \notin {"failed", "reheader"})
    /\ []((Aborted /\ out_created) =>
              /\ \A w \in 1..Len(out_writes) : out_writes[w].op # "reheader"
              /\ (Len(out_file) >= HeaderSize
                    /\ ~(LastWrite.op = "failed" /\ LastWrite.slot = NumSlots))
                  => RdLE32(out_file, ChecksumAt) = Zero)
    /\ [][/\ Aborted => UNCHANGED vars
          /\ (~Aborted /\ pc' \in {"err", "panic"} /\ out_created) =>
                /\ Len(out_file') >= Len(out_file)
                /\ \/ out_writes' = out_writes /\ out_file' = out_file
                   \/ /\ Len(out_writes') = Len(out_writes) + 1
                      /\ SubSeq(out_writes', 1, Len(out_writes)) = out_writes
                      /\ LET w == out_writes'[Len(out_writes')]
                         IN  \A b \in 1..Len(out_file) :
                                 (b <= w.pos \/ b > w.pos + w.len)
                                     => out_file'[b] = out_file[b]
      ]_vars

\* a write of a payload failed half way, after a Track of a lower slot was
\* completed; the Header on disk is still the placeholder
C15_Witness ==
    /\ pc = "err"
    /\ HasFailedWrite
    /\ LastWrite.len > 0
    /\ LastWrite.rev > 0
    /\ \E s \in Written : s < LastWrite.slot
    /\ RdLE32(out_file, ChecksumAt) = Zero

\* a successful write is the pending write of the state before it
IoWritesArePending ==
    [][(Len(out_writes') = Len(out_writes) + 1 /\ pc' \notin {"err", "panic"}) =>
          /\ out_writes'[Len(out_writes')] = PendingWrite.rec
          /\ Len(PendingWrite.data) = PendingWrite.rec.len
          /\ Slice(out_file', PendingWrite.rec.pos, PendingWrite.rec.len) = PendingWrite.data
      ]_vars

\* C18: the output of a successful merge of two sources with equal
\* rev_count is a fixed point of merging: merging it with itself under any
\* selection table completes and produces a file byte-for-byte identical
\* to it (Header offsets, Track structures, flux bytes, checksum).
C18_OutputIsFixedPoint ==
    (run = 2 /\ first.kind = "self") =>
        /\ ~Aborted
        /\ pc = "done" =>
              /\ out_file = first.out_file
              /\ DecodeHeader(out_file) = DecodeHeader(first.out_file)

\* the second merge has completed with a table that selects source 1 for a
\* written slot; the first merge took that slot from source 1 and its
\* source 0 was not laid out the way the output is
C18_Witness ==
    /\ run = 2
    /\ first.kind = "self"
    /\ pc = "done"
    /\ \E s \in Written : track_params[s + 1] = 1 /\ first.track_params[s + 1] = 1
    /\ first.in_bytes[1] # first.out_file
    /\ Len(out_file) > HeaderSize

\* the bytes of f from position pos, at most n of them
Clip(f, pos, n) == SubSeq(f, pos + 1, IF pos + n <= Len(f) THEN pos + n ELSE Len(f))

\* what an image holds for slot s: the Track's number, and per revolution
\* the duration, num_bitcells and the payload bytes
SlotContent(scp, bytes, s) ==
    LET t == scp.tracks[s + 1]
    IN  IF ~IsSome(t) THEN None
        ELSE [track_number |-> t.track_number,
              revs |-> [r \in 1..Len(t.revs) |->
                  [duration     |-> t.revs[r].duration,
                   num_bitcells |-> t.revs[r].num_bitcells,
                   flux         |-> Clip(bytes,
                                        val(scp.header.track_data_headers[s + 1])
                                            + val(t.revs[r].offset),
                                        2 * val(t.revs[r].num_bitcells))]]]

\* the second run has the source 0 of the first, a selection table that
\* agrees with the first on the slots source 0 has, and a source 1 that
\* agrees with the first on the slots source 0 has and the table gives to
\* source 1
SecondRunAgrees ==
    /\ run = 2
    /\ first.kind = "other"
    /\ Loaded
    /\ in_bytes[1] = first.in_bytes[1]
    /\ \A s \in Slots :
          HasTrack(0, s) =>
              /\ track_params[s + 1] = first.track_params[s + 1]
              /\ track_params[s + 1] = 1 =>
                    SlotContent(scp_in_files[2], in_bytes[2], s)
                        = SlotContent(first.scp_in_files[2], first.in_bytes[2], s)

\* C19: with source 0 and the selection table fixed the output depends on
\* source 1 only through the Tracks and payloads of the slots present in
\* source 0 with selection 1: two runs whose source 1 images both load and
\* agree on those slots end the same way with byte-identical outputs, and
\* changing the selection of a slot absent from source 0 changes nothing.
C19_OnlySelectedSlotsOfSourceOneMatter ==
    (SecondRunAgrees /\ pc \in {"done", "panic", "err"}) =>
        /\ pc = first.pc
        /\ out_created = first.out_created
        /\ out_file = first.out_file

\* both runs completed with slot 10 taken from source 1; the second run
\* had another source 1 file and another table
C19_Witness ==
    /\ SecondRunAgrees
    /\ pc = "done"
    /\ in_bytes[2] # first.in_bytes[2]
    /\ scp_in_files[2].tracks # first.scp_in_files[2].tracks
    /\ track_params # first.track_params
    /\ \E s \in Written : track_params[s + 1] = 1
    /\ out_file = first.out_file

====
